---- MODULE Spec2Model ----
(***************************************************************************)
(* The min/max expression calculator of src/ИКМ.py: class Stack, class     *)
(* MiniMaxParser (_validate_expression, evaluate with its nested           *)
(* _read_number).  One MiniMaxParser instance is modelled: its expression, *)
(* its _stack, and the position of the evaluate call that is running.      *)
(* results and trace record what has happened: the outcome of every call   *)
(* that has ended, and the position and stack at the start of every loop   *)
(* iteration of the latest call.                                           *)
(* MiniMaxConsole.run is modelled by ConsoleSpec: console holds the lines   *)
(* input() has yet to return, whether the loop is still running, and a log *)
(* of what each iteration did.                                             *)
(*                                                                         *)
(* Characters are one-character strings.  A stack cell is                  *)
(*   [tag |-> "int", val |-> n]   a Python int pushed by the digit branch  *)
(*   [tag |-> "op",  op  |-> c]   the str 'm' or 'M' pushed as it is       *)
(* The single ValueError of the source is told apart by the line that      *)
(* raises it; the kinds carry the names the specification gives them.      *)
(***************************************************************************)
EXTENDS Integers, Sequences, FiniteSets, TLC

VARIABLES expression, stack, i, pc, results, trace, console

vars == <<expression, stack, i, pc, results, trace, console>>

(***************************************************************************)
(* Bounds of the model.                                                    *)
(***************************************************************************)
\* longest string of the exhaustive input set
MaxLen == 3
\* most operators in a generated well-formed expression
MaxOps == 2
\* evaluate calls made on the one instance
MaxCalls == 2
\* lines typed at the prompt of the console
MaxLines == 4

(***************************************************************************)
(* Characters.                                                             *)
(***************************************************************************)
DIGITS == {"0", "1", "2", "3", "4", "5", "6", "7", "8", "9"}

\* str.isdigit() on the characters that can reach the scan (ASCII only:
\* anything else is stopped by ALLOWED_CHARS before the scan starts)
isdigit(c) == c \in DIGITS

\* int(c) for a digit character
int(c) ==
    CASE c = "0" -> 0 [] c = "1" -> 1 [] c = "2" -> 2 [] c = "3" -> 3
      [] c = "4" -> 4 [] c = "5" -> 5 [] c = "6" -> 6 [] c = "7" -> 7
      [] c = "8" -> 8 [] c = "9" -> 9

ALLOWED_CHARS == DIGITS \cup {"m", "M", "(", ")", ",", "-", "."}

\* expression[k] with Python's 0-based index
At(e, k) == e[k + 1]

(***************************************************************************)
(* Stack cells and the Stack class.                                        *)
(***************************************************************************)
IntCell(n) == [tag |-> "int", val |-> n]
OpCell(c) == [tag |-> "op", op |-> c]

\* isinstance(x, int)
isinstance_int(x) == x.tag = "int"

push(s, item) == Append(s, item)
peek(s) == s[Len(s)]
\* the items left by a pop that does not raise
pop(s) == SubSeq(s, 1, Len(s) - 1)
is_empty(s) == Len(s) = 0

(***************************************************************************)
(* Outcomes of a call.                                                     *)
(***************************************************************************)
Ok(v) == [kind |-> "ok", value |-> v]
Error(e) == [kind |-> "error", err |-> e, ch |-> ""]
ErrorCh(e, c) == [kind |-> "error", err |-> e, ch |-> c]
Passed == [kind |-> "passed"]

IsOk(o) == o.kind = "ok"
IsError(o) == o.kind = "error"
Failed(o, e) == o.kind = "error" /\ o.err = e

(***************************************************************************)
(* MiniMaxParser._validate_expression                                      *)
(***************************************************************************)
\* first_disallowed, reporting the last disallowed character instead
RECURSIVE first_disallowed_last(_, _)
first_disallowed_last(e, k) ==
    IF k > Len(e) THEN 0
    ELSE IF first_disallowed_last(e, k + 1) # 0
         THEN first_disallowed_last(e, k + 1)
    ELSE IF e[k] \notin ALLOWED_CHARS THEN k
    ELSE 0

\* for ch in self.expression: if ch not in self.ALLOWED_CHARS: raise
\* the 1-based position of the character that raises, 0 when none does
RECURSIVE first_disallowed(_, _)
first_disallowed(e, k) ==
    IF k > Len(e) THEN 0
    ELSE IF e[k] \notin ALLOWED_CHARS THEN k
    ELSE first_disallowed(e, k + 1)

\* the balance loop from 0-based position k with the counter at balance:
\* -1 when the raise inside the loop is reached, else the counter after
\* the last character
RECURSIVE balance_scan(_, _, _)
balance_scan(e, k, balance) ==
    IF k >= Len(e) THEN balance
    ELSE IF At(e, k) = "(" THEN balance_scan(e, k + 1, balance + 1)
    ELSE IF At(e, k) = ")"
         THEN IF balance - 1 < 0 THEN -1
              ELSE balance_scan(e, k + 1, balance - 1)
    ELSE balance_scan(e, k + 1, balance)

\* check_parens, looking at the final counter before the raise in the loop
check_parens_total_first(e) ==
    LET balance == balance_scan(e, 0, 0)
    IN  IF balance # 0 THEN Error("UnbalancedParens")
        ELSE Passed

check_parens(e) ==
    LET balance == balance_scan(e, 0, 0)
    IN  IF balance < 0 THEN Error("UnmatchedClosingParen")
        ELSE IF balance # 0 THEN Error("UnbalancedParens")
        ELSE Passed

\* check_operator, with the test for an operator left out
check_operator_missing(e) == Passed

check_operator(e) ==
    IF (\A k \in 1..Len(e) : e[k] # "m") /\ (\A k \in 1..Len(e) : e[k] # "M")
    THEN Error("NoOperator")
    ELSE Passed

\* validate_expression, with the parenthesis check before the character check
validate_expression_parens_first(e) ==
    IF Len(e) = 0 THEN Error("EmptyExpression")
    ELSE IF check_parens(e).kind # "passed" THEN check_parens(e)
    ELSE IF first_disallowed(e, 1) # 0
         THEN ErrorCh("InvalidCharacter", e[first_disallowed(e, 1)])
    ELSE check_operator(e)

validate_expression(e) ==
    IF Len(e) = 0 THEN Error("EmptyExpression")
    ELSE IF first_disallowed(e, 1) # 0
         THEN ErrorCh("InvalidCharacter", e[first_disallowed(e, 1)])
    ELSE IF check_parens(e).kind # "passed" THEN check_parens(e)
    ELSE check_operator(e)

(***************************************************************************)
(* MiniMaxParser.evaluate: the scan                                        *)
(***************************************************************************)
\* the while loop of _read_number, entered with i = k and num = num
RECURSIVE read_loop(_, _, _)
read_loop(e, k, num) ==
    IF k < Len(e) /\ isdigit(At(e, k))
    THEN read_loop(e, k + 1, num * 10 + int(At(e, k)))
    ELSE [num |-> num, i |-> k]

read_number(e, start_idx) == read_loop(e, start_idx, 0)

\* is_negative, with the test left out
is_negative_missing(e, k) == FALSE

is_negative(e, k) ==
    At(e, k) = "-" /\ k + 1 < Len(e) /\ isdigit(At(e, k + 1))

\* is_non_integer, testing only a digit followed by '.'
is_non_integer_after_digit_only(e, k) ==
    isdigit(At(e, k)) /\ k + 1 < Len(e) /\ At(e, k + 1) = "."

is_non_integer(e, k) ==
    \/ At(e, k) = "."
    \/ (isdigit(At(e, k)) /\ k + 1 < Len(e) /\ At(e, k + 1) = ".")

min(a, b) == IF b < a THEN b ELSE a
max(a, b) == IF b > a THEN b ELSE a

\* apply_operator, computing a new value instead of selecting an argument
apply_operator_arithmetic(operator, a, b) ==
    IF operator = "m" THEN a - b ELSE a + b

\* apply_operator, with the two operators exchanged
apply_operator_exchanged(operator, a, b) ==
    IF operator = "m" THEN max(a, b) ELSE min(a, b)

apply_operator(operator, a, b) ==
    IF operator = "m" THEN min(a, b) ELSE max(a, b)

\* reduce, reading the operator with peek and leaving it on the stack
reduce_operator_peeked(s) ==
    IF Len(s) < 3
    THEN [out |-> Error("InsufficientOperands"), stack |-> <<>>]
    ELSE LET b == s[Len(s)]
             a == s[Len(s) - 1]
             operator == s[Len(s) - 2]
             rest == SubSeq(s, 1, Len(s) - 2)
         IN  IF ~isinstance_int(a) \/ ~isinstance_int(b)
             THEN [out |-> Error("NonIntegerOperand"), stack |-> rest]
             ELSE IF ~(operator.tag = "op" /\ operator.op \in {"m", "M"})
             THEN [out |-> Error("MalformedOperatorPlacement"), stack |-> rest]
             ELSE [out |-> Passed,
                   stack |-> push(rest,
                       IntCell(apply_operator(operator.op, a.val, b.val)))]

\* reduce, testing the operator cell before the two operand cells
reduce_operator_first(s) ==
    IF Len(s) < 3
    THEN [out |-> Error("InsufficientOperands"), stack |-> <<>>]
    ELSE LET b == s[Len(s)]
             a == s[Len(s) - 1]
             operator == s[Len(s) - 2]
             rest == SubSeq(s, 1, Len(s) - 3)
         IN  IF ~(operator.tag = "op" /\ operator.op \in {"m", "M"})
             THEN [out |-> Error("MalformedOperatorPlacement"), stack |-> rest]
             ELSE IF ~isinstance_int(a) \/ ~isinstance_int(b)
             THEN [out |-> Error("NonIntegerOperand"), stack |-> rest]
             ELSE [out |-> Passed,
                   stack |-> push(rest,
                       IntCell(apply_operator(operator.op, a.val, b.val)))]

\* the ')' branch.  The three pops are done one after the other, so an
\* IndexError leaves the stack without the cells popped before it.
reduce(s) ==
    IF Len(s) < 3
    THEN [out |-> Error("InsufficientOperands"), stack |-> <<>>]
    ELSE LET b == s[Len(s)]
             a == s[Len(s) - 1]
             operator == s[Len(s) - 2]
             rest == SubSeq(s, 1, Len(s) - 3)
         IN  IF ~isinstance_int(a) \/ ~isinstance_int(b)
             THEN [out |-> Error("NonIntegerOperand"), stack |-> rest]
             ELSE IF ~(operator.tag = "op" /\ operator.op \in {"m", "M"})
             THEN [out |-> Error("MalformedOperatorPlacement"), stack |-> rest]
             ELSE [out |-> Passed,
                   stack |-> push(rest,
                       IntCell(apply_operator(operator.op, a.val, b.val)))]

\* scan_step, with '(' and ',' leaving the loop body before i += 1
scan_step_marker_continue(e, k, s) ==
    LET char == At(e, k)
    IN  IF is_negative(e, k)
        THEN [out |-> Error("NegativeNumberNotAllowed"), i |-> k, stack |-> s]
        ELSE IF is_non_integer(e, k)
        THEN [out |-> Error("NonIntegerNotAllowed"), i |-> k, stack |-> s]
        ELSE IF isdigit(char)
        THEN [out |-> Passed, i |-> read_number(e, k).i,
              stack |-> push(s, IntCell(read_number(e, k).num))]
        ELSE IF char \in {"m", "M"}
        THEN [out |-> Passed, i |-> k + 1, stack |-> push(s, OpCell(char))]
        ELSE IF char = ")"
        THEN [out |-> reduce(s).out,
              i |-> IF reduce(s).out.kind = "passed" THEN k + 1 ELSE k,
              stack |-> reduce(s).stack]
        ELSE IF char \in {"(", ","}
        THEN [out |-> Passed, i |-> k, stack |-> s]
        ELSE [out |-> ErrorCh("UnexpectedCharacter", char), i |-> k, stack |-> s]

\* scan_step, with the digit branch falling through to i += 1
scan_step_no_continue(e, k, s) ==
    LET char == At(e, k)
    IN  IF is_negative(e, k)
        THEN [out |-> Error("NegativeNumberNotAllowed"), i |-> k, stack |-> s]
        ELSE IF is_non_integer(e, k)
        THEN [out |-> Error("NonIntegerNotAllowed"), i |-> k, stack |-> s]
        ELSE IF isdigit(char)
        THEN [out |-> Passed, i |-> read_number(e, k).i + 1,
              stack |-> push(s, IntCell(read_number(e, k).num))]
        ELSE IF char \in {"m", "M"}
        THEN [out |-> Passed, i |-> k + 1, stack |-> push(s, OpCell(char))]
        ELSE IF char = ")"
        THEN [out |-> reduce(s).out,
              i |-> IF reduce(s).out.kind = "passed" THEN k + 1 ELSE k,
              stack |-> reduce(s).stack]
        ELSE IF char \in {"(", ","}
        THEN [out |-> Passed, i |-> k + 1, stack |-> s]
        ELSE [out |-> ErrorCh("UnexpectedCharacter", char), i |-> k, stack |-> s]

\* scan_step, with ',' left out of the branch of the structural markers
scan_step_comma_unhandled(e, k, s) ==
    LET char == At(e, k)
    IN  IF is_negative(e, k)
        THEN [out |-> Error("NegativeNumberNotAllowed"), i |-> k, stack |-> s]
        ELSE IF is_non_integer(e, k)
        THEN [out |-> Error("NonIntegerNotAllowed"), i |-> k, stack |-> s]
        ELSE IF isdigit(char)
        THEN [out |-> Passed, i |-> read_number(e, k).i,
              stack |-> push(s, IntCell(read_number(e, k).num))]
        ELSE IF char \in {"m", "M"}
        THEN [out |-> Passed, i |-> k + 1, stack |-> push(s, OpCell(char))]
        ELSE IF char = ")"
        THEN [out |-> reduce(s).out,
              i |-> IF reduce(s).out.kind = "passed" THEN k + 1 ELSE k,
              stack |-> reduce(s).stack]
        ELSE IF char = "("
        THEN [out |-> Passed, i |-> k + 1, stack |-> s]
        ELSE [out |-> ErrorCh("UnexpectedCharacter", char), i |-> k, stack |-> s]

\* one iteration of the while loop at 0-based position k
scan_step(e, k, s) ==
    LET char == At(e, k)
    IN  IF is_negative(e, k)
        THEN [out |-> Error("NegativeNumberNotAllowed"), i |-> k, stack |-> s]
        ELSE IF is_non_integer(e, k)
        THEN [out |-> Error("NonIntegerNotAllowed"), i |-> k, stack |-> s]
        ELSE IF isdigit(char)
        THEN [out |-> Passed, i |-> read_number(e, k).i,
              stack |-> push(s, IntCell(read_number(e, k).num))]
        ELSE IF char \in {"m", "M"}
        THEN [out |-> Passed, i |-> k + 1, stack |-> push(s, OpCell(char))]
        ELSE IF char = ")"
        THEN [out |-> reduce(s).out,
              i |-> IF reduce(s).out.kind = "passed" THEN k + 1 ELSE k,
              stack |-> reduce(s).stack]
        ELSE IF char \in {"(", ","}
        THEN [out |-> Passed, i |-> k + 1, stack |-> s]
        ELSE [out |-> ErrorCh("UnexpectedCharacter", char), i |-> k, stack |-> s]

\* after_scan, without the test that the stack is empty after the pop
after_scan_unchecked(s) ==
    IF is_empty(s) THEN [out |-> Error("NoResult"), stack |-> s]
    ELSE [out |-> Ok(peek(s)), stack |-> pop(s)]

\* after_scan, reading the result with peek and leaving it on the stack
after_scan_peek(s) ==
    IF is_empty(s) THEN [out |-> Error("NoResult"), stack |-> s]
    ELSE IF ~is_empty(pop(s))
         THEN [out |-> Error("ExtraArguments"), stack |-> s]
    ELSE [out |-> Ok(peek(s)), stack |-> s]

\* the statements after the loop
after_scan(s) ==
    IF is_empty(s) THEN [out |-> Error("NoResult"), stack |-> s]
    ELSE IF ~is_empty(pop(s))
         THEN [out |-> Error("ExtraArguments"), stack |-> pop(s)]
    ELSE [out |-> Ok(peek(s)), stack |-> pop(s)]

(***************************************************************************)
(* Input strings.                                                          *)
(***************************************************************************)
\* characters of the exhaustive input set: two digits, every other allowed
\* character, and two characters outside ALLOWED_CHARS
Alphabet == {"1", "5", "m", "M", "(", ")", ",", "-", ".", "x", "#"}

RECURSIVE StringsOfLen(_)
StringsOfLen(n) ==
    IF n = 0 THEN {<<>>}
    ELSE {Append(s, c) : s \in StringsOfLen(n - 1), c \in Alphabet}

Literals == {<<"7">>, <<"1", "5">>}
NegativeLiterals == {<<"-">> \o n : n \in Literals}
DecimalLiterals ==
    {<<"1", ".", "5">>, <<"1", "2", ".", "5">>, <<".", "5">>, <<"5", ".">>}

Application(op, e1, e2) == <<op, "(">> \o e1 \o <<",">> \o e2 \o <<")">>

\* the expressions of the grammar E := digits | Op(E,E) with exactly n
\* operators, their literals taken from Literals
RECURSIVE WellFormed(_)
WellFormed(n) ==
    IF n = 0 THEN Literals
    ELSE UNION {
           {Application(op, e1, e2) :
               op \in {"m", "M"}, e1 \in WellFormed(k),
               e2 \in WellFormed(n - 1 - k)} : k \in 0..(n - 1)}

\* the same, with exactly one literal taken from lits instead
RECURSIVE OneReplaced(_, _)
OneReplaced(n, lits) ==
    IF n = 0 THEN lits
    ELSE UNION {
           {Application(op, e1, e2) :
               op \in {"m", "M"}, e1 \in OneReplaced(k, lits),
               e2 \in WellFormed(n - 1 - k)}
           \cup
           {Application(op, e1, e2) :
               op \in {"m", "M"}, e1 \in WellFormed(k),
               e2 \in OneReplaced(n - 1 - k, lits)} : k \in 0..(n - 1)}

WellFormedInputs == UNION {WellFormed(n) : n \in 0..MaxOps}
OperatorInputs == UNION {WellFormed(n) : n \in 1..MaxOps}
NegativeInputs == UNION {OneReplaced(n, NegativeLiterals) : n \in 1..MaxOps}
DecimalInputs == UNION {OneReplaced(n, DecimalLiterals) : n \in 1..MaxOps}

\* an operator expression with a digit run after it or before it, and two
\* operator expressions side by side
TrailingInputs == {x \o n : x \in OperatorInputs, n \in Literals}
LeadingInputs == {n \o x : x \in OperatorInputs, n \in Literals}
SideBySideInputs ==
    UNION {{x \o y : x \in WellFormed(p[1]), y \in WellFormed(p[2])} :
             p \in {q \in (1..MaxOps) \X (1..MaxOps) : q[1] + q[2] <= MaxOps}}

\* the strings one edit away from an application of one operator
Without(s, k) == SubSeq(s, 1, k - 1) \o SubSeq(s, k + 1, Len(s))
Edits(s) ==
    {Without(s, k) : k \in 1..Len(s)}
    \cup {SubSeq(s, 1, k) \o <<c>> \o SubSeq(s, k + 1, Len(s)) :
            k \in 0..Len(s), c \in Alphabet}
    \cup {[s EXCEPT ![k] = c] : k \in 1..Len(s), c \in Alphabet}
EditedInputs == UNION {Edits(s) : s \in WellFormed(1)}

\* applications of one operator with a literal written with leading zeros
ZeroLiterals == {<<"0", "0", "7">>, <<"0">>, <<"0", "1", "0">>}
LeadingZeroInputs == OneReplaced(1, ZeroLiterals)

\* the expressions the specification lists as test cases
Examples ==
    {<<"M", "(", "1", "5", ",", "m", "(", "1", "6", ",", "8", ")", ")">>,
     <<"m", "(", "3", ",", "m", "(", "7", ",", "2", ")", ")">>,
     <<"M", "(", "1", ",", "2">>,
     <<"M", "(", "1", ",", "2", ")", ")">>,
     <<"5">>,
     <<"M", "(", "-", "1", ",", "2", ")">>,
     <<"M", "(", "1", ".", "5", ",", "2", ")">>,
     <<"M", "(", "1", ",", "2", ")", "3">>}

(***************************************************************************)
(* The state machine.                                                      *)
(***************************************************************************)
\* the parser is used without MiniMaxConsole
NoConsole == [lines |-> <<>>, running |-> FALSE, log |-> <<>>]

\* MiniMaxParser(expression): the instance before its first evaluate, for
\* every string of at most MaxLen characters of Alphabet and every string
\* of the generated sets
Init ==
    /\ \/ \E n \in 0..MaxLen : expression \in StringsOfLen(n)
       \/ expression \in WellFormedInputs
       \/ expression \in NegativeInputs
       \/ expression \in DecimalInputs
       \/ expression \in TrailingInputs
       \/ expression \in LeadingInputs
       \/ expression \in SideBySideInputs
       \/ expression \in EditedInputs
       \/ expression \in LeadingZeroInputs
       \/ expression \in Examples
    /\ stack = <<>>
    /\ i = 0
    /\ pc = "idle"
    /\ results = <<>>
    /\ trace = <<>>
    /\ console = NoConsole

\* a new MiniMaxParser is made for the same string
init ==
    /\ pc = "idle"
    /\ results # <<>>
    /\ Len(results) < MaxCalls
    /\ stack' = <<>>
    /\ UNCHANGED <<expression, i, pc, results, trace, console>>

\* evaluate, going to the scan without calling _validate_expression
evaluate_unvalidated ==
    /\ pc = "idle"
    /\ Len(results) < MaxCalls
    /\ pc' = "scan"
    /\ i' = 0
    /\ trace' = <<>>
    /\ UNCHANGED <<expression, stack, results, console>>

\* evaluate is called: validation, then i = 0
evaluate ==
    /\ pc = "idle"
    /\ Len(results) < MaxCalls
    /\ IF validate_expression(expression).kind = "passed"
       THEN /\ pc' = "scan"
            /\ i' = 0
            /\ UNCHANGED results
       ELSE /\ results' = Append(results, validate_expression(expression))
            /\ UNCHANGED <<pc, i>>
    /\ trace' = <<>>
    /\ UNCHANGED <<expression, stack, console>>

\* one iteration of the while loop
scan ==
    /\ pc = "scan"
    /\ i < Len(expression)
    /\ LET r == scan_step(expression, i, stack)
       IN  /\ stack' = r.stack
           /\ IF r.out.kind = "passed"
              THEN /\ i' = r.i
                   /\ UNCHANGED <<pc, results>>
              ELSE /\ i' = 0
                   /\ pc' = "idle"
                   /\ results' = Append(results, r.out)
    /\ trace' = Append(trace, [at |-> i, stack |-> stack])
    /\ UNCHANGED <<expression, console>>

\* the loop has ended: the result is popped and returned, or an error raised
finish ==
    /\ pc = "scan"
    /\ i >= Len(expression)
    /\ stack' = after_scan(stack).stack
    /\ results' = Append(results, after_scan(stack).out)
    /\ pc' = "idle"
    /\ i' = 0
    /\ UNCHANGED <<expression, trace, console>>

Next == init \/ evaluate \/ scan \/ finish

Spec == Init /\ [][Next]_vars

(***************************************************************************)
(* MiniMaxConsole.run                                                      *)
(***************************************************************************)
\* str.strip(): the line without its leading and trailing blanks
RECURSIVE lstrip(_)
lstrip(s) == IF s # <<>> /\ Head(s) = " " THEN lstrip(Tail(s)) ELSE s
RECURSIVE rstrip(_)
rstrip(s) ==
    IF s # <<>> /\ s[Len(s)] = " " THEN rstrip(SubSeq(s, 1, Len(s) - 1)) ELSE s
strip(s) == rstrip(lstrip(s))

\* the while loop of evaluate run to its end from position k, and the
\* statements after it
RECURSIVE run_loop(_, _, _)
run_loop(e, k, s) ==
    IF k >= Len(e) THEN after_scan(s)
    ELSE IF scan_step(e, k, s).out.kind = "passed"
         THEN run_loop(e, scan_step(e, k, s).i, scan_step(e, k, s).stack)
    ELSE [out |-> scan_step(e, k, s).out, stack |-> scan_step(e, k, s).stack]

\* parser.evaluate() as one call, on a parser whose stack is s
evaluate_call(e, s) ==
    IF validate_expression(e).kind = "passed" THEN run_loop(e, 0, s)
    ELSE [out |-> validate_expression(e), stack |-> s]

\* new_stack, with one parser kept for all the lines
new_stack_kept(old) == old

\* the stack of the parser MiniMaxParser(expr) makes, whatever the stack of
\* the parser made before it holds
new_stack(old) == <<>>

\* the lines that are typed
ConsoleLines ==
    {<<>>,
     <<" ", " ">>,
     <<"m", "(", "7", ",", "1", "5", ")">>,
     <<" ", "M", "(", "7", ",", "1", "5", ")", " ">>,
     <<"m", "(", "7", ",", " ", "1", "5", ")">>,
     <<"5">>,
     <<"m", "-">>,
     <<"M", "(", "1", ",", "2", ")", "3">>}

RECURSIVE LinesOfLen(_)
LinesOfLen(n) ==
    IF n = 0 THEN {<<>>}
    ELSE {Append(ls, l) : ls \in LinesOfLen(n - 1), l \in ConsoleLines}

\* MiniMaxConsole().run() has printed its banner; no parser has been made
ConsoleInit ==
    /\ \E n \in 0..MaxLines :
          \E ls \in LinesOfLen(n) :
             console = [lines |-> ls, running |-> TRUE, log |-> <<>>]
    /\ expression = <<>>
    /\ stack = <<>>
    /\ i = 0
    /\ pc = "idle"
    /\ results = <<>>
    /\ trace = <<>>

\* a loop iteration on a line that is empty once stripped
run_blank ==
    /\ console.running
    /\ console.lines # <<>>
    /\ strip(Head(console.lines)) = <<>>
    /\ console' =
         [lines |-> Tail(console.lines),
          running |-> TRUE,
          log |-> Append(console.log,
                    [line |-> Head(console.lines), evaluated |-> FALSE])]
    /\ UNCHANGED <<expression, stack, i, pc, results, trace>>

\* a loop iteration on a line whose evaluation raises ValueError
run_error ==
    /\ console.running
    /\ console.lines # <<>>
    /\ LET expr == strip(Head(console.lines))
           call == evaluate_call(expr, new_stack(stack))
       IN  /\ expr # <<>>
           /\ call.out.kind = "error"
           /\ console' =
                [lines |-> Tail(console.lines),
                 running |-> TRUE,
                 log |-> Append(console.log,
                           [line |-> Head(console.lines), evaluated |-> TRUE,
                            expr |-> expr, start |-> new_stack(stack),
                            out |-> call.out])]
           /\ expression' = expr
           /\ stack' = call.stack
           /\ results' = <<call.out>>
    /\ UNCHANGED <<i, pc, trace>>

\* a loop iteration on a line whose evaluation returns: the result is
\* printed and the loop is left
run_result ==
    /\ console.running
    /\ console.lines # <<>>
    /\ LET expr == strip(Head(console.lines))
           call == evaluate_call(expr, new_stack(stack))
       IN  /\ expr # <<>>
           /\ call.out.kind = "ok"
           /\ console' =
                [lines |-> Tail(console.lines),
                 running |-> FALSE,
                 log |-> Append(console.log,
                           [line |-> Head(console.lines), evaluated |-> TRUE,
                            expr |-> expr, start |-> new_stack(stack),
                            out |-> call.out])]
           /\ expression' = expr
           /\ stack' = call.stack
           /\ results' = <<call.out>>
    /\ UNCHANGED <<i, pc, trace>>

ConsoleNext == run_blank \/ run_error \/ run_result

ConsoleSpec == ConsoleInit /\ [][ConsoleNext]_vars

\* evaluate runs to its end once called: nothing else runs in between, so
\* a loop iteration or the statements after the loop that can be taken are
\* taken
FairSpec == Spec /\ WF_vars(scan) /\ WF_vars(finish)

(***************************************************************************)
(* The grammar E := digits | Op(E,E), Op in {m, M}, and its min/max fold,  *)
(* as the claims state them.                                               *)
(***************************************************************************)
\* the base-10 value of a run of digits, from its last digit back
RECURSIVE PositionalValue(_)
PositionalValue(d) ==
    IF d = <<>> THEN 0
    ELSE int(d[Len(d)]) + 10 * PositionalValue(SubSeq(d, 1, Len(d) - 1))

\* the first 1-based position at or after p that holds no digit
RECURSIVE EndOfDigits(_, _)
EndOfDigits(s, p) ==
    IF p <= Len(s) /\ s[p] \in DIGITS THEN EndOfDigits(s, p + 1) ELSE p

NoParse == [ok |-> FALSE, next |-> 0, val |-> 0]

\* an E read at 1-based position p: where it ends and what it folds to
RECURSIVE ParseE(_, _)
ParseE(s, p) ==
    IF p > Len(s) THEN NoParse
    ELSE IF s[p] \in DIGITS
    THEN [ok |-> TRUE, next |-> EndOfDigits(s, p),
          val |-> PositionalValue(SubSeq(s, p, EndOfDigits(s, p) - 1))]
    ELSE IF s[p] \in {"m", "M"} /\ p + 1 <= Len(s) /\ s[p + 1] = "("
    THEN LET l == ParseE(s, p + 2)
         IN  IF ~l.ok \/ l.next > Len(s) \/ s[l.next] # "," THEN NoParse
             ELSE LET r == ParseE(s, l.next + 1)
                  IN  IF ~r.ok \/ r.next > Len(s) \/ s[r.next] # ")"
                      THEN NoParse
                      ELSE [ok |-> TRUE, next |-> r.next + 1,
                            val |-> IF s[p] = "m"
                                    THEN (IF l.val <= r.val THEN l.val ELSE r.val)
                                    ELSE (IF l.val >= r.val THEN l.val ELSE r.val)]
    ELSE NoParse

InGrammar(s) == ParseE(s, 1).ok /\ ParseE(s, 1).next = Len(s) + 1
IsApplication(s) == InGrammar(s) /\ s[1] \in {"m", "M"}
Fold(s) == ParseE(s, 1).val

\* the first evaluate call on the instance has got past its first statement
Started == pc = "scan" \/ results # <<>>
\* the first evaluate call has ended
Ended == results # <<>>

(***************************************************************************)
(* C1                                                                      *)
(***************************************************************************)
\* C1, as claimed: for every expression of the grammar E := digits | Op(E,E)
\* evaluate returns, with no error, the min/max fold of the expression.
C1_EveryGrammarExpressionFolds ==
    (Ended /\ InGrammar(expression))
        => results[1] = Ok(IntCell(Fold(expression)))

\* C1, amended: for every expression of the grammar that is an operator
\* application Op(E,E), evaluate returns, with no error, the min/max fold of
\* the expression; an expression that is a bare digit run fails with
\* NoOperator.
C1_ApplicationsFold ==
    (Ended /\ InGrammar(expression))
        => IF IsApplication(expression)
           THEN results[1] = Ok(IntCell(Fold(expression)))
           ELSE results[1] = Error("NoOperator")

C1_Witness ==
    /\ expression =
         <<"M", "(", "1", "5", ",", "m", "(", "1", "6", ",", "8", ")", ")">>
    /\ results = <<Ok(IntCell(15))>>

(***************************************************************************)
(* C2                                                                      *)
(***************************************************************************)
\* C2: whenever evaluate ends without an error, the value it returns is an
\* Integer cell, never an operator tag 'm' or 'M'.
C2_ResultIsInteger ==
    \A k \in 1..Len(results) :
        IsOk(results[k]) => isinstance_int(results[k].value)

(***************************************************************************)
(* C3                                                                      *)
(***************************************************************************)
\* the four rules of the validator, each stated on the whole string
IsEmpty(e) == e = <<>>
HasDisallowed(e) == \E k \in 1..Len(e) : e[k] \notin ALLOWED_CHARS
Count(e, c, n) == Cardinality({k \in 1..n : e[k] = c})
PrefixGoesNegative(e) ==
    \E n \in 1..Len(e) : Count(e, ")", n) > Count(e, "(", n)
TotalsDiffer(e) == Count(e, "(", Len(e)) # Count(e, ")", Len(e))
ParensBroken(e) == PrefixGoesNegative(e) \/ TotalsDiffer(e)
LacksOperator(e) == \A k \in 1..Len(e) : e[k] \notin {"m", "M"}

ValidationErrors ==
    {"EmptyExpression", "InvalidCharacter", "UnmatchedClosingParen",
     "UnbalancedParens", "NoOperator"}

\* the first call was stopped by the validator
StoppedByValidator ==
    Ended /\ IsError(results[1]) /\ results[1].err \in ValidationErrors

\* C3: the validator reports the lowest-numbered violated rule among
\* (1) empty, (2) disallowed character, (3) parenthesis balance, (4) no
\* operator, and an input violating none of them passes validation.
C3_FirstViolatedRule ==
    Started =>
        IF IsEmpty(expression)
        THEN Ended /\ Failed(results[1], "EmptyExpression")
        ELSE IF HasDisallowed(expression)
        THEN Ended /\ Failed(results[1], "InvalidCharacter")
        ELSE IF ParensBroken(expression)
        THEN Ended /\ IsError(results[1])
               /\ results[1].err \in {"UnmatchedClosingParen", "UnbalancedParens"}
        ELSE IF LacksOperator(expression)
        THEN Ended /\ Failed(results[1], "NoOperator")
        ELSE ~StoppedByValidator

\* a disallowed character after an unmatched ')' in a string with no operator
C3_Witness ==
    /\ expression = <<")", "x">>
    /\ results = <<ErrorCh("InvalidCharacter", "x")>>

(***************************************************************************)
(* C4                                                                      *)
(***************************************************************************)
\* C4: for a non-empty input over the allowed characters, the call fails
\* with UnmatchedClosingParen exactly when some prefix has more ')' than
\* '(', and otherwise with UnbalancedParens exactly when the totals differ.
C4_ParenthesisCheck ==
    (Started /\ ~IsEmpty(expression) /\ ~HasDisallowed(expression)) =>
        /\ (Ended /\ Failed(results[1], "UnmatchedClosingParen"))
             <=> PrefixGoesNegative(expression)
        /\ (Ended /\ Failed(results[1], "UnbalancedParens"))
             <=> (~PrefixGoesNegative(expression) /\ TotalsDiffer(expression))

\* a prefix goes negative and the totals differ as well
C4_Witness ==
    /\ expression = <<")", "(", "(">>
    /\ results = <<Error("UnmatchedClosingParen")>>

(***************************************************************************)
(* C5                                                                      *)
(***************************************************************************)
LeftMostDisallowed(e) ==
    e[CHOOSE k \in 1..Len(e) :
        /\ e[k] \notin ALLOWED_CHARS
        /\ \A j \in 1..(k - 1) : e[j] \in ALLOWED_CHARS]

\* C5: an input with a character outside the allowed set fails with
\* InvalidCharacter carrying the left-most such character.
C5_LeftMostInvalidCharacter ==
    (Started /\ HasDisallowed(expression)) =>
        /\ Ended
        /\ results[1] =
             ErrorCh("InvalidCharacter", LeftMostDisallowed(expression))

\* two disallowed characters after an unmatched ')'
C5_Witness ==
    /\ expression = <<")", "#", "x">>
    /\ results = <<ErrorCh("InvalidCharacter", "#")>>

(***************************************************************************)
(* C6                                                                      *)
(***************************************************************************)
\* the scan is at a '-' that is immediately followed by a digit
AtNegativeLiteral ==
    /\ pc = "scan"
    /\ i < Len(expression)
    /\ At(expression, i) = "-"
    /\ i + 1 < Len(expression)
    /\ At(expression, i + 1) \in DIGITS

\* C6: an operator expression with one literal n replaced by -n fails with
\* NegativeNumberNotAllowed; and a scan step taken at a '-' immediately
\* followed by a digit ends the call with NegativeNumberNotAllowed and
\* pushes no cell.
C6_NegativeLiteralRejected ==
    /\ []((Ended /\ expression \in NegativeInputs)
            => results[1] = Error("NegativeNumberNotAllowed"))
    /\ [][AtNegativeLiteral =>
            /\ results' = Append(results, Error("NegativeNumberNotAllowed"))
            /\ stack' = stack
            /\ pc' = "idle"]_vars

C6_Witness ==
    /\ expression = <<"M", "(", "-", "7", ",", "1", "5", ")">>
    /\ results = <<Error("NegativeNumberNotAllowed")>>
    /\ stack = <<OpCell("M")>>

(***************************************************************************)
(* C7                                                                      *)
(***************************************************************************)
HasDot(e) == \E k \in 1..Len(e) : e[k] = "."

\* C7: an operator expression with one literal replaced by 1.5, 12.5, .5 or
\* 5. fails with NonIntegerNotAllowed, and no call on an input that has a
\* '.' in it returns a result.
C7_DecimalsRejected ==
    /\ (Ended /\ expression \in DecimalInputs)
         => results[1] = Error("NonIntegerNotAllowed")
    /\ HasDot(expression) => \A k \in 1..Len(results) : ~IsOk(results[k])

\* the dot after a run of two digits: the run has been pushed when the dot
\* is met
C7_Witness ==
    /\ expression = <<"m", "(", "7", ",", "1", "2", ".", "5", ")">>
    /\ results = <<Error("NonIntegerNotAllowed")>>
    /\ stack = <<OpCell("m"), IntCell(7), IntCell(12)>>

(***************************************************************************)
(* C8                                                                      *)
(***************************************************************************)
ExtraInputs == TrailingInputs \cup LeadingInputs \cup SideBySideInputs

\* C8: an operator expression followed by a digit run, a digit run followed
\* by an operator expression, and two operator expressions side by side
\* all fail with ExtraArguments, raised after the scan with the stack still
\* holding a cell once the result is popped.
C8_ExtraArguments ==
    /\ []((Ended /\ expression \in ExtraInputs)
            => results[1] = Error("ExtraArguments"))
    /\ [][(results = <<>> /\ results' # <<>> /\ expression \in ExtraInputs)
            => /\ pc = "scan"
               /\ i >= Len(expression)
               /\ Len(stack) >= 2
               /\ stack' = pop(stack)]_vars

C8_Witness ==
    /\ expression = <<"M", "(", "7", ",", "1", "5", ")", "7">>
    /\ results = <<Error("ExtraArguments")>>
    /\ stack = <<IntCell(15)>>

(***************************************************************************)
(* C9                                                                      *)
(***************************************************************************)
\* C9: every evaluate call made for the same string ends with the same
\* outcome (the same returned value or the same error), on a new instance
\* and on the instance an earlier call has run on.
C9_Idempotent ==
    \A j, k \in 1..Len(results) : results[j] = results[k]

\* the second call ran on the stack the failed first call left its cell on
C9_Witness ==
    /\ expression = <<"M", "(", "1", ",", "2", ")", "3">>
    /\ results = <<Error("ExtraArguments"), Error("ExtraArguments")>>
    /\ stack = <<IntCell(2), IntCell(2)>>

(***************************************************************************)
(* C10                                                                     *)
(***************************************************************************)
\* C10: evaluate returns a result without error only for the strings of the
\* grammar E := digits | Op(E,E).
C10_OnlyGrammarAccepted ==
    \A k \in 1..Len(results) : IsOk(results[k]) => InGrammar(expression)


(***************************************************************************)
(* C11                                                                     *)
(***************************************************************************)
Violates(e) ==
    IsEmpty(e) \/ HasDisallowed(e) \/ ParensBroken(e) \/ LacksOperator(e)

\* C11: evaluate runs the validator before the scan.  On an input that
\* violates a validator rule the call ends with the error the validator
\* reports, the scan never starts and the stack is left as it was; on an
\* input that violates none, the call goes on to the scan from position 0
\* with the stack as it was.
C11_ValidatorRunsFirst ==
    /\ [](pc = "scan" => ~Violates(expression))
    /\ [][(pc = "idle" /\ Violates(expression) /\ results' # results) =>
            /\ results' = Append(results, validate_expression(expression))
            /\ IsError(validate_expression(expression))
            /\ stack' = stack
            /\ pc' = "idle"
            /\ trace' = <<>>]_vars
    /\ [][(pc = "idle" /\ ~Violates(expression)) =>
            /\ results' = results
            /\ (pc' = "scan" => (i' = 0 /\ stack' = stack))]_vars

C11_Witness ==
    /\ expression = <<"M", "(", "1", ",", "2", ")", ")">>
    /\ results = <<Error("UnmatchedClosingParen")>>
    /\ stack = <<>>
    /\ trace = <<>>


(***************************************************************************)
(* C12                                                                     *)
(***************************************************************************)
\* the scan is at a ')'
AtClosingParen ==
    pc = "scan" /\ i < Len(expression) /\ At(expression, i) = ")"

\* the step ends the call with the error e
RaisesInStep(e) ==
    pc' = "idle" /\ results' = Append(results, Error(e))

\* C12: the step taken at a ')' looks at the three top cells b, a, op:
\* fewer than three cells gives InsufficientOperands; else a or b not an
\* Integer gives NonIntegerOperand; else op not an operator tag gives
\* MalformedOperatorPlacement; else the three cells are replaced by one
\* Integer, min(a,b) for m and max(a,b) for M, the cells below are left as
\* they were and the scan goes on.
C12_Reduction ==
    [][AtClosingParen =>
        LET n == Len(stack)
        IN  IF n < 3 THEN RaisesInStep("InsufficientOperands")
            ELSE IF stack[n].tag # "int" \/ stack[n - 1].tag # "int"
            THEN RaisesInStep("NonIntegerOperand")
            ELSE IF stack[n - 2].tag # "op"
            THEN RaisesInStep("MalformedOperatorPlacement")
            ELSE /\ results' = results
                 /\ pc' = "scan"
                 /\ Len(stack') = n - 2
                 /\ SubSeq(stack', 1, n - 3) = SubSeq(stack, 1, n - 3)
                 /\ stack'[n - 2] =
                      IntCell(IF stack[n - 2].op = "m"
                              THEN (IF stack[n - 1].val <= stack[n].val
                                    THEN stack[n - 1].val ELSE stack[n].val)
                              ELSE (IF stack[n - 1].val >= stack[n].val
                                    THEN stack[n - 1].val ELSE stack[n].val))]_vars

\* an operator below an operand and an Integer where the operator is looked
\* for: m(7,m5) stops at its ')' with the cells m 7 m 5 on the stack
C12_Witness ==
    /\ expression = <<"m", "(", "7", ",", "m", "5", ")">>
    /\ results = <<Error("NonIntegerOperand")>>
    /\ stack = <<OpCell("m")>>
    /\ trace[Len(trace)] =
         [at |-> 6,
          stack |-> <<OpCell("m"), IntCell(7), OpCell("m"), IntCell(5)>>]


(***************************************************************************)
(* C13                                                                     *)
(***************************************************************************)
\* C13, as claimed: on an input that passes validation the scan never fails
\* with UnexpectedCharacter.
C13_NeverUnexpectedCharacter ==
    \A k \in 1..Len(results) : ~Failed(results[k], "UnexpectedCharacter")

\* the scan is at a '-' that is not immediately followed by a digit
AtLoneMinus ==
    /\ pc = "scan"
    /\ i < Len(expression)
    /\ At(expression, i) = "-"
    /\ ~(i + 1 < Len(expression) /\ At(expression, i + 1) \in DIGITS)

\* C13, amended: on an input that passes validation the scan fails with
\* UnexpectedCharacter exactly at a '-' that is not immediately followed by
\* a digit, and the error carries '-'; every other character that validation
\* lets through is handled by one of the other scan rules.
C13_UnexpectedOnlyAtLoneMinus ==
    /\ [][(results' # results
            /\ Failed(results'[Len(results')], "UnexpectedCharacter"))
          => (AtLoneMinus /\ results'[Len(results')].ch = "-")]_vars
    /\ [][AtLoneMinus =>
            /\ results' = Append(results, ErrorCh("UnexpectedCharacter", "-"))
            /\ stack' = stack
            /\ pc' = "idle"]_vars

C13_Witness ==
    /\ expression = <<"m", "(", "7", "-", ",", "1", "5", ")">>
    /\ results = <<ErrorCh("UnexpectedCharacter", "-")>>
    /\ stack = <<OpCell("m"), IntCell(7)>>


(***************************************************************************)
(* C14                                                                     *)
(***************************************************************************)
\* C14: the stack is empty whenever no evaluate call is running: at the
\* start of every call and after every call has ended, by a result or by
\* an error.
C14_StackEmptyBetweenCalls ==
    pc = "idle" => stack = <<>>


(***************************************************************************)
(* C15                                                                     *)
(***************************************************************************)
\* a well-formed operator application starts at 1-based position p of e
ApplicationAt(e, p) == e[p] \in {"m", "M"} /\ ParseE(e, p).ok

\* the 0-based position k lies in a well-formed operator application of e
InsideApplication(e, k) ==
    \E p \in 1..(k + 1) :
        ApplicationAt(e, p) /\ k + 1 < ParseE(e, p).next

\* C15: scanning a well-formed operator application Op(E1,E2) that occurs
\* in the input, entered with any stack S, raises no error, keeps S below
\* the cells it works on (every reduction in it finds its three cells above
\* S), and ends with the stack S followed by one Integer cell, the fold of
\* Op(E1,E2).
C15_ApplicationLeavesItsFold ==
    /\ [][(pc = "scan" /\ i < Len(expression)
             /\ InsideApplication(expression, i)) => pc' = "scan"]_vars
    /\ [](\A k \in 1..Len(trace) :
            ApplicationAt(expression, trace[k].at + 1) =>
              LET S == trace[k].stack
                  end == ParseE(expression, trace[k].at + 1).next - 1
                  fold == ParseE(expression, trace[k].at + 1).val
              IN  /\ \A j \in (k + 1)..Len(trace) :
                        trace[j].at < end =>
                          /\ Len(trace[j].stack) > Len(S)
                          /\ SubSeq(trace[j].stack, 1, Len(S)) = S
                          /\ At(expression, trace[j].at) = ")"
                               => Len(trace[j].stack) >= Len(S) + 3
                  /\ (pc = "scan" /\ i = end)
                        => stack = Append(S, IntCell(fold)))

\* the inner application of M(15,m(16,8)), entered with the cells M 15
C15_Witness ==
    /\ expression =
         <<"M", "(", "1", "5", ",", "m", "(", "1", "6", ",", "8", ")", ")">>
    /\ pc = "scan"
    /\ i = 12
    /\ \E k \in 1..Len(trace) :
          /\ trace[k] = [at |-> 5, stack |-> <<OpCell("M"), IntCell(15)>>]
    /\ stack = <<OpCell("M"), IntCell(15), IntCell(8)>>


(***************************************************************************)
(* C16                                                                     *)
(***************************************************************************)
\* the scan is at a digit that is not immediately followed by '.'
AtDigitRun ==
    /\ pc = "scan"
    /\ i < Len(expression)
    /\ At(expression, i) \in DIGITS
    /\ ~(i + 1 < Len(expression) /\ At(expression, i + 1) = ".")

\* the 0-based position of the first character after the digits at k
AfterRun(e, k) == EndOfDigits(e, k + 1) - 1

\* C16: the scan meets a digit only at the start of a maximal run of
\* digits; at a digit not immediately followed by '.', one step pushes one
\* Integer cell, the base-10 value of the whole run, and moves to the first
\* character after the run, which is where the next iteration is taken.
C16_NumberLexing ==
    /\ []((pc = "scan" /\ 0 < i /\ i < Len(expression)
             /\ At(expression, i) \in DIGITS)
            => At(expression, i - 1) \notin DIGITS)
    /\ [][AtDigitRun =>
            /\ stack' =
                 Append(stack,
                        IntCell(PositionalValue(
                            SubSeq(expression, i + 1, AfterRun(expression, i)))))
            /\ i' = AfterRun(expression, i)
            /\ pc' = "scan"
            /\ results' = results]_vars
    /\ [](\A k \in 1..(Len(trace) - 1) :
            At(expression, trace[k].at) \in DIGITS
              => trace[k + 1].at = AfterRun(expression, trace[k].at))

\* 007 has been read as 7 and the scan is at the ',' after it
C16_Witness ==
    /\ expression = <<"m", "(", "0", "0", "7", ",", "1", "5", ")">>
    /\ pc = "scan"
    /\ i = 5
    /\ stack = <<OpCell("m"), IntCell(7)>>
    /\ trace[Len(trace)] = [at |-> 2, stack |-> <<OpCell("m")>>]


(***************************************************************************)
(* C17                                                                     *)
(***************************************************************************)
\* C17: the scan index never passes the end of the input, every loop
\* iteration that does not fail moves it forward (by one when it is not at
\* a digit), the loop takes at most as many iterations as the input has
\* characters, and every call that has started its scan ends.
C17_Terminates ==
    /\ [](pc = "scan" => (0 <= i /\ i <= Len(expression)))
    /\ [][(pc = "scan" /\ pc' = "scan") =>
            /\ i' > i
            /\ (At(expression, i) \notin DIGITS => i' = i + 1)
            /\ Len(trace') = Len(trace) + 1]_vars
    /\ [](Len(trace) <= Len(expression))
    /\ (pc = "scan") ~> (pc = "idle")

\* thirteen characters scanned in eleven iterations
C17_Witness ==
    /\ expression =
         <<"M", "(", "1", "5", ",", "m", "(", "1", "6", ",", "8", ")", ")">>
    /\ pc = "idle"
    /\ Len(trace) = 11
    /\ results = <<Ok(IntCell(15))>>


(***************************************************************************)
(* C18                                                                     *)
(***************************************************************************)
\* the iteration logged in entry r evaluated its line and printed a result
Succeeded(r) == r.evaluated /\ IsOk(r.out)

\* what the log must say of a line read by the loop
LoggedAsRead(r) ==
    /\ r.evaluated <=> strip(r.line) # <<>>
    /\ r.evaluated =>
         /\ r.expr = strip(r.line)
         /\ r.start = <<>>
         /\ r.out.kind \in {"ok", "error"}

\* C18: the loop runs on after every blank line, which it does not
\* evaluate, and after every line whose evaluation fails; it is left right
\* after the first line whose evaluation succeeds and no line is read after
\* that; every line that is not blank is evaluated, stripped, by a parser
\* whose stack is empty.  (A line is what input() returns: the end of the
\* input is not a line.)
C18_ExitsOnFirstSuccess ==
    /\ [](\A k \in 1..Len(console.log) :
            /\ LoggedAsRead(console.log[k])
            /\ k < Len(console.log) => ~Succeeded(console.log[k]))
    /\ [](console.running <=>
            (console.log = <<>> \/ ~Succeeded(console.log[Len(console.log)])))
    /\ [][/\ console.running
          /\ console.lines # <<>>
          /\ console'.lines = Tail(console.lines)
          /\ Len(console'.log) = Len(console.log) + 1
          /\ SubSeq(console'.log, 1, Len(console.log)) = console.log
          /\ console'.log[Len(console'.log)].line = Head(console.lines)]_vars

\* a blank line, a line that fails and leaves a cell on its parser's stack,
\* a line that succeeds once stripped, and a fourth line never read
C18_Witness ==
    /\ ~console.running
    /\ Len(console.log) = 3
    /\ ~console.log[1].evaluated
    /\ console.log[2].evaluated
    /\ Failed(console.log[2].out, "ExtraArguments")
    /\ console.log[3].evaluated
    /\ console.log[3].line = <<" ", "M", "(", "7", ",", "1", "5", ")", " ">>
    /\ console.log[3].start = <<>>
    /\ console.log[3].out = Ok(IntCell(15))
    /\ Len(console.lines) = 1

(***************************************************************************)
(* C19                                                                     *)
(***************************************************************************)
\* an m or M lies before position k of e
OperatorBefore(e, k) ==
    \E j \in 0..(k - 1) : j < Len(e) /\ At(e, j) \in {"m", "M"}

\* C19: no call fails with NoResult: once the scan has passed an m or M the
\* stack is not empty, an iteration that does not fail never empties a
\* stack that holds a cell, and the stack holds a cell when the scan of a
\* validated input reaches its end.
C19_NoResultUnreachable ==
    /\ [](\A k \in 1..Len(results) : ~Failed(results[k], "NoResult"))
    /\ []((pc = "scan" /\ OperatorBefore(expression, i)) => stack # <<>>)
    /\ [][(pc = "scan" /\ pc' = "scan" /\ stack # <<>>) => stack' # <<>>]_vars
    /\ []((pc = "scan" /\ i >= Len(expression)) =>
            (OperatorBefore(expression, i) /\ stack # <<>>))

\* two reductions, each of three cells to one, have left one cell at the
\* end of the scan
C19_Witness ==
    /\ expression =
         <<"M", "(", "1", "5", ",", "m", "(", "1", "6", ",", "8", ")", ")">>
    /\ pc = "scan"
    /\ i = Len(expression)
    /\ stack = <<IntCell(15)>>
    /\ results = <<>>

(***************************************************************************)
(* C20                                                                     *)
(***************************************************************************)
\* the 1-based positions of e where a maximal run of digits starts
RunStarts(e) ==
    {p \in 1..Len(e) : e[p] \in DIGITS /\ (p = 1 \/ e[p - 1] \notin DIGITS)}

\* the base-10 values of the maximal runs of digits of e
LiteralValues(e) ==
    {PositionalValue(SubSeq(e, p, EndOfDigits(e, p) - 1)) : p \in RunStarts(e)}

\* the Integer cell c holds the value of a literal of the input
IsLiteralOfInput(c) == c.val >= 0 /\ c.val \in LiteralValues(expression)

\* C20: every Integer cell on the stack is non-negative and is the base-10
\* value of a maximal run of digits of the input, and so is every Integer
\* that a call returns.
C20_IntegersAreLiterals ==
    /\ \A k \in 1..Len(stack) :
          isinstance_int(stack[k]) => IsLiteralOfInput(stack[k])
    /\ \A k \in 1..Len(results) :
          (IsOk(results[k]) /\ isinstance_int(results[k].value)) =>
             IsLiteralOfInput(results[k].value)

\* the inner min has selected 8 and left it beside the 15 read before it
C20_Witness ==
    /\ expression =
         <<"M", "(", "1", "5", ",", "m", "(", "1", "6", ",", "8", ")", ")">>
    /\ pc = "scan"
    /\ i = 12
    /\ stack = <<OpCell("M"), IntCell(15), IntCell(8)>>
    /\ results = <<>>
====
